---- MODULE Spec2Model ----
(***************************************************************************)
(* BinaryTree<T> of src/tree/binarytree.hpp, with T = int.                 *)
(*                                                                         *)
(* A node owns its two children through std::unique_ptr, so a subtree has  *)
(* exactly one owner and is modelled as a value: nullptr is the empty      *)
(* tuple, a node is a record [value, left, right].  Two tree objects are   *)
(* modelled: "a", always alive, and "b", which is copy- or move-           *)
(* constructed from a in a scope that holds one further call, on a or on   *)
(* b, and then ends.  Every public member function is one action; what it  *)
(* returned or threw is kept in `last`, the objects as they were before    *)
(* the call in `pre`.  A call that never returns (the walk of insert       *)
(* standing still on an equal value) leaves the program in pc = "hung",    *)
(* where nothing further happens.                                          *)
(***************************************************************************)
EXTENDS Integers, Sequences, FiniteSets, TLC

VARIABLES root, order, scope, pc, last, pre, hist

vars == <<root, order, scope, pc, last, pre, hist>>

(***************************************************************************)
(* Bounds of the model.                                                    *)
(***************************************************************************)
MaxVal == 4
MaxNodes == 4

Values == 1..MaxVal
Obj == {"a", "b"}

(***************************************************************************)
(* enum VisitingOrder { InOrder, PreOrder, PostOrder }                     *)
(***************************************************************************)
InOrder == 0
PreOrder == 1
PostOrder == 2
VisitingOrder == {InOrder, PreOrder, PostOrder}

\* An `order` member read before it was ever written holds any int: one of
\* the enumerators, or a value outside the enumeration (all alike to print).
OutOfRange == PostOrder + 1
IndeterminateOrder == VisitingOrder \cup {OutOfRange}

(***************************************************************************)
(* Nodes.                                                                  *)
(***************************************************************************)
nullptr == <<>>

TreeNode(val) == [value |-> val, left |-> nullptr, right |-> nullptr]

\* The outcome of a call whose loop never exits.
Diverges == [diverges |-> TRUE]

(***************************************************************************)
(* insert: the walk from the root.  tmp moves right while val is greater,  *)
(* left while val is less, and does not move when val equals tmp->value,   *)
(* so the loop `while(tmp != nullptr)` then never exits.  When tmp falls   *)
(* off the tree, prev is the last node visited and the new leaf is hung on *)
(* prev by comparing prev->value with val.                                 *)
(***************************************************************************)
\* Mutant: the comparison that picks the side of the new leaf is reversed.
insertAttachReversed(prev, val) ==
    IF prev.value < val
    THEN [prev EXCEPT !.left = TreeNode(val)]
    ELSE [prev EXCEPT !.right = TreeNode(val)]

insertAttach(prev, val) ==
    IF prev.value > val
    THEN [prev EXCEPT !.left = TreeNode(val)]
    ELSE [prev EXCEPT !.right = TreeNode(val)]

RECURSIVE insertWalk(_, _)
insertWalk(tmp, val) ==
    IF val > tmp.value
    THEN IF tmp.right = nullptr
         THEN insertAttach(tmp, val)
         ELSE LET sub == insertWalk(tmp.right, val)
              IN  IF sub = Diverges THEN Diverges ELSE [tmp EXCEPT !.right = sub]
    ELSE IF val < tmp.value
    THEN IF tmp.left = nullptr
         THEN insertAttach(tmp, val)
         ELSE LET sub == insertWalk(tmp.left, val)
              IN  IF sub = Diverges THEN Diverges ELSE [tmp EXCEPT !.left = sub]
    ELSE Diverges

insert(r, val) ==
    IF r = nullptr THEN TreeNode(val) ELSE insertWalk(r, val)

(***************************************************************************)
(* contains                                                                *)
(***************************************************************************)
\* Mutant: the descent goes to the wrong side.
RECURSIVE containsWalkWrongSide(_, _)
containsWalkWrongSide(curr, val) ==
    IF curr = nullptr THEN FALSE
    ELSE IF curr.value = val THEN TRUE
    ELSE containsWalkWrongSide(IF curr.value < val THEN curr.left ELSE curr.right, val)

RECURSIVE containsWalk(_, _)
containsWalk(curr, val) ==
    IF curr = nullptr THEN FALSE
    ELSE IF curr.value = val THEN TRUE
    ELSE containsWalk(IF curr.value > val THEN curr.left ELSE curr.right, val)

contains(r, val) ==
    IF r = nullptr THEN FALSE ELSE containsWalk(r, val)

(***************************************************************************)
(* deleteElement, recursiveDelete, removeNode.  removeNode(node) replaces  *)
(* the slot `node` by its right child when it has no left child, else by   *)
(* its left child; the node and whatever else it owned are destroyed.      *)
(***************************************************************************)
removeNode(node) ==
    IF node.left = nullptr THEN node.right ELSE node.left

RECURSIVE leftmostOf(_)
leftmostOf(n) ==
    IF n.left # nullptr THEN leftmostOf(n.left) ELSE n

RECURSIVE recursiveDelete(_, _)
recursiveDelete(node, val) ==
    IF node = nullptr THEN [ret |-> FALSE, node |-> node]
    ELSE IF node.value = val
    THEN IF node.left # nullptr /\ node.right # nullptr
         THEN [ret |-> TRUE,
               node |-> [node EXCEPT !.value = leftmostOf(node.right).value,
                                     !.right = removeNode(node.right)]]
         ELSE [ret |-> TRUE, node |-> removeNode(node)]
    ELSE IF val < node.value
    THEN LET d == recursiveDelete(node.left, val)
         IN  [ret |-> d.ret, node |-> [node EXCEPT !.left = d.node]]
    ELSE LET d == recursiveDelete(node.right, val)
         IN  [ret |-> d.ret, node |-> [node EXCEPT !.right = d.node]]

\* Mutant: the result of recursiveDelete is dropped and true returned.
deleteElementAlwaysTrue(r, val) ==
    IF r = nullptr THEN [ret |-> FALSE, node |-> r]
    ELSE [ret |-> TRUE, node |-> recursiveDelete(r, val).node]

deleteElement(r, val) ==
    IF r = nullptr THEN [ret |-> FALSE, node |-> r] ELSE recursiveDelete(r, val)

(***************************************************************************)
(* getHeight, isBalanced                                                   *)
(***************************************************************************)
Max(x, y) == IF x < y THEN y ELSE x

RECURSIVE recursiveGetHeight(_)
recursiveGetHeight(node) ==
    IF node = nullptr THEN 0
    ELSE Max(recursiveGetHeight(node.left), recursiveGetHeight(node.right)) + 1

getHeight(r) == recursiveGetHeight(r)

isBalanced(r) ==
    IF r = nullptr THEN TRUE
    ELSE LET l == recursiveGetHeight(r.left)
             rr == recursiveGetHeight(r.right)
         IN  (IF l > rr THEN l - rr ELSE rr - l) <= 1

(***************************************************************************)
(* balance.  v.size() - 1 is computed in size_t (64 bits, here four 16-bit *)
(* limbs, least significant first) and narrowed to the int parameter of    *)
(* makeNode (32 bits, two's complement).                                   *)
(***************************************************************************)
Limb == 2^16

ToSizeT(n) == <<n % Limb, (n \div Limb) % Limb, 0, 0>>

RECURSIVE SizeTSubFrom(_, _, _, _)
SizeTSubFrom(x, y, i, borrow) ==
    IF i > 4 THEN <<>>
    ELSE LET d == x[i] - y[i] - borrow
         IN  <<d % Limb>> \o SizeTSubFrom(x, y, i + 1, IF d < 0 THEN 1 ELSE 0)

\* Mutant: the subtraction stops at zero instead of wrapping around.
SizeTSubSaturating(x, y) ==
    IF x = ToSizeT(0) THEN x ELSE SizeTSubFrom(x, y, 1, 0)

SizeTSub(x, y) == SizeTSubFrom(x, y, 1, 0)

SizeTToInt(x) ==
    IF x[2] >= Limb \div 2 THEN (x[2] - Limb) * Limb + x[1] ELSE x[2] * Limb + x[1]

\* Mutant: the value is pushed before the left subtree is visited.
RECURSIVE makeInOrderVectorNodeFirst(_, _)
makeInOrderVectorNodeFirst(vec, node) ==
    IF node = nullptr THEN vec
    ELSE makeInOrderVectorNodeFirst(
             makeInOrderVectorNodeFirst(Append(vec, node.value), node.left),
             node.right)

RECURSIVE makeInOrderVector(_, _)
makeInOrderVector(vec, node) ==
    IF node = nullptr THEN vec
    ELSE makeInOrderVector(Append(makeInOrderVector(vec, node.left), node.value),
                           node.right)

\* v[i] of the source (indexed from 0; from 1 here).  operator[] does not
\* check its index: outside the vector the read is undefined and what it
\* yields is no stored value.
OutOfBoundsRead == [garbage |-> TRUE]

VecAt(v, i) == IF i >= 0 /\ i < Len(v) THEN v[i + 1] ELSE OutOfBoundsRead

\* Mutant: the first element of the range, not the middle one, becomes the node.
RECURSIVE makeNodeFirstAsRoot(_, _, _)
makeNodeFirstAsRoot(low, high, v) ==
    IF low > high THEN nullptr
    ELSE LET mid == low
         IN  [value |-> VecAt(v, mid),
              left  |-> makeNodeFirstAsRoot(low, mid - 1, v),
              right |-> makeNodeFirstAsRoot(mid + 1, high, v)]

\* Mutant: the last element of the range, not the middle one, becomes the node.
RECURSIVE makeNodeLastAsRoot(_, _, _)
makeNodeLastAsRoot(low, high, v) ==
    IF low > high THEN nullptr
    ELSE LET mid == high
         IN  [value |-> VecAt(v, mid),
              left  |-> makeNodeLastAsRoot(low, mid - 1, v),
              right |-> makeNodeLastAsRoot(mid + 1, high, v)]

RECURSIVE makeNode(_, _, _)
makeNode(low, high, v) ==
    IF low > high THEN nullptr
    ELSE LET mid == (low + high) \div 2
         IN  [value |-> VecAt(v, mid),
              left  |-> makeNode(low, mid - 1, v),
              right |-> makeNode(mid + 1, high, v)]

\* The argument `high` of the call makeNode(0, v.size()-1, v).
balanceHigh(v) == SizeTToInt(SizeTSub(ToSizeT(Len(v)), ToSizeT(1)))

balance(r) ==
    LET v == makeInOrderVector(<<>>, r)
    IN  makeNode(0, balanceHigh(v), v)

(***************************************************************************)
(* print and the three traversals, as the source writes them.              *)
(***************************************************************************)
RECURSIVE recursiveInOrder(_)
recursiveInOrder(node) ==
    IF node = nullptr THEN ""
    ELSE " " \o ToString(node.value)
             \o recursiveInOrder(node.left)
             \o recursiveInOrder(node.right)

RECURSIVE recursivePreOrder(_)
recursivePreOrder(node) ==
    IF node = nullptr THEN ""
    ELSE recursivePreOrder(node.left)
             \o (" " \o ToString(node.value))
             \o recursivePreOrder(node.right)

RECURSIVE recursivePostOrder(_)
recursivePostOrder(node) ==
    IF node = nullptr THEN ""
    ELSE recursivePostOrder(node.left)
             \o recursivePostOrder(node.right)
             \o (" " \o ToString(node.value))

NoThrow(r) == [exc |-> "none", ret |-> r]
Throw(e) == [exc |-> e, ret |-> 0]

print(r, ord) ==
    IF r = nullptr THEN NoThrow("")
    ELSE IF ord = InOrder THEN NoThrow(recursiveInOrder(r))
    ELSE IF ord = PreOrder THEN NoThrow(recursivePreOrder(r))
    ELSE IF ord = PostOrder THEN NoThrow(recursivePostOrder(r))
    ELSE Throw("invalid_argument")

(***************************************************************************)
(* getMax, getMin                                                          *)
(***************************************************************************)
RECURSIVE rightmostOf(_)
rightmostOf(n) ==
    IF n.right # nullptr THEN rightmostOf(n.right) ELSE n

\* Mutant: the empty tree yields a default value instead of the exception.
getMaxDefaultOnEmpty(r) ==
    IF r = nullptr THEN NoThrow(0) ELSE NoThrow(rightmostOf(r).value)

getMax(r) ==
    IF r = nullptr THEN Throw("EmptyTreeException") ELSE NoThrow(rightmostOf(r).value)

\* Mutant: the walk to the leftmost node is missing.
getMinOfRoot(r) ==
    IF r = nullptr THEN Throw("EmptyTreeException") ELSE NoThrow(r.value)

getMin(r) ==
    IF r = nullptr THEN Throw("EmptyTreeException") ELSE NoThrow(leftmostOf(r).value)

(***************************************************************************)
(* The copy constructor: starts from an empty tree with order InOrder,     *)
(* walks `other` with an explicit stack of pending right children and      *)
(* inserts each visited value, then takes other's order.                   *)
(***************************************************************************)
RECURSIVE copyLoop(_, _, _)
copyLoop(curr, remaining, thisRoot) ==
    LET inserted == insert(thisRoot, curr.value)
        pushed == IF curr.right # nullptr THEN Append(remaining, curr.right)
                  ELSE remaining
    IN  IF inserted = Diverges THEN Diverges
        ELSE IF curr.left # nullptr THEN copyLoop(curr.left, pushed, inserted)
        ELSE IF pushed = <<>> THEN inserted
        ELSE copyLoop(pushed[Len(pushed)], SubSeq(pushed, 1, Len(pushed) - 1), inserted)

\* Mutant: the final `order = other.order` is missing.
copyConstructKeepsInOrder(otherRoot, otherOrder) ==
    LET r == IF otherRoot = nullptr THEN nullptr
             ELSE copyLoop(otherRoot, <<>>, nullptr)
    IN  IF r = Diverges THEN Diverges ELSE [root |-> r, order |-> InOrder]

\* Mutant: the copy is built from the sorted vector of other's values, not by
\* re-inserting them in the order the walk visits them.
copyConstructFromSortedVector(otherRoot, otherOrder) ==
    LET v == makeInOrderVector(<<>>, otherRoot)
    IN  [root |-> makeNode(0, Len(v) - 1, v), order |-> otherOrder]

copyConstruct(otherRoot, otherOrder) ==
    LET r == IF otherRoot = nullptr THEN nullptr
             ELSE copyLoop(otherRoot, <<>>, nullptr)
    IN  IF r = Diverges THEN Diverges ELSE [root |-> r, order |-> otherOrder]

(***************************************************************************)
(* The move constructor swaps root and order with its own members.  Its    *)
(* root member starts as nullptr (unique_ptr's default), its order member  *)
(* has no initializer, so what `other` is left with as order is whatever   *)
(* the new object's storage held.                                          *)
(***************************************************************************)
\* Mutant: the root is taken over without being taken away from `other`.
moveConstructKeepsSource(otherRoot, otherOrder, uninit) ==
    [root |-> otherRoot, order |-> otherOrder,
     otherRoot |-> otherRoot, otherOrder |-> uninit]

moveConstruct(otherRoot, otherOrder, uninit) ==
    [root |-> otherRoot, order |-> otherOrder,
     otherRoot |-> nullptr, otherOrder |-> uninit]

(***************************************************************************)
(* operator=: on self-assignment returns *this; otherwise constructs the   *)
(* temporary BinaryTree(other) and returns a reference to it.  No member   *)
(* of *this is written; the temporary is destroyed at the end of the       *)
(* return statement, so the reference returned dangles.                    *)
(***************************************************************************)
copyAssign(thisRoot, thisOrder, otherRoot, otherOrder, self) ==
    IF self THEN [root |-> thisRoot, order |-> thisOrder]
    ELSE IF copyConstruct(otherRoot, otherOrder) = Diverges THEN Diverges
    ELSE [root |-> thisRoot, order |-> thisOrder]

(***************************************************************************)
(* State.                                                                  *)
(*   root[x], order[x]  the members of object x                            *)
(*   scope              of b: by is "none" (b does not exist), "copy" or   *)
(*                      "move" (how b was constructed); called says that   *)
(*                      the scope's one call was made (the scope ends next) *)
(*   pc                 "ready", or "hung" inside a call that never returns *)
(*   last               the last call: op, object, argument, what it threw *)
(*                      (exc) and what it returned (ret)                   *)
(*   pre                root, order and hist as they were before the last  *)
(*                      call                                               *)
(*   hist[x]            insertsOnly: x's nodes were all made by its        *)
(*                      constructor and by insert, none removed or rebuilt; *)
(*                      inserted: the values so given to x (kept while     *)
(*                      insertsOnly)                                       *)
(***************************************************************************)
RECURSIVE Size(_)
Size(n) == IF n = nullptr THEN 0 ELSE 1 + Size(n.left) + Size(n.right)

Fresh(vals) == [inserted |-> vals, insertsOnly |-> TRUE]

Rebuilt == [inserted |-> {}, insertsOnly |-> FALSE]

NoScope == [by |-> "none", called |-> FALSE]

alive == IF scope.by = "none" THEN {"a"} ELSE {"a", "b"}

RECURSIVE Elems(_)
Elems(n) == IF n = nullptr THEN {} ELSE {n.value} \cup Elems(n.left) \cup Elems(n.right)

Call(op, x, arg, res) ==
    /\ last' = [op |-> op, obj |-> x, arg |-> arg, exc |-> res.exc, ret |-> res.ret]
    /\ pre' = [root |-> root, order |-> order, hist |-> hist]

\* BinaryTree() and BinaryTree(T val, VisitingOrder order)
Init ==
    /\ \/ root = [x \in Obj |-> nullptr]
          /\ order = [x \in Obj |-> InOrder]
          /\ hist = [x \in Obj |-> Fresh({})]
       \/ \E val \in Values, ord \in VisitingOrder :
            /\ root = [x \in Obj |-> IF x = "a" THEN TreeNode(val) ELSE nullptr]
            /\ order = [x \in Obj |-> IF x = "a" THEN ord ELSE InOrder]
            /\ hist = [x \in Obj |-> IF x = "a" THEN Fresh({val}) ELSE Fresh({})]
    /\ scope = NoScope
    /\ pc = "ready"
    /\ last = [op |-> "construct", obj |-> "a", arg |-> 0, exc |-> "none", ret |-> 0]
    /\ pre = [root |-> root, order |-> order, hist |-> hist]

CanCall(x) == pc = "ready" /\ x \in alive /\ ~scope.called

Called == scope' = IF scope.by = "none" THEN scope ELSE [scope EXCEPT !.called = TRUE]

Insert(x, val) ==
    /\ CanCall(x)
    /\ Size(root[x]) < MaxNodes
    /\ LET r == insert(root[x], val)
       IN  /\ pc' = IF r = Diverges THEN "hung" ELSE "ready"
           /\ root' = IF r = Diverges THEN root ELSE [root EXCEPT ![x] = r]
    /\ hist' = IF hist[x].insertsOnly
               THEN [hist EXCEPT ![x].inserted = @ \cup {val}]
               ELSE hist
    /\ Call("insert", x, val, NoThrow(0))
    /\ Called
    /\ UNCHANGED order

DeleteElement(x, val) ==
    /\ CanCall(x)
    /\ LET d == deleteElement(root[x], val)
       IN  /\ root' = [root EXCEPT ![x] = d.node]
           /\ Call("deleteElement", x, val, NoThrow(d.ret))
    /\ hist' = [hist EXCEPT ![x] = Rebuilt]
    /\ Called
    /\ UNCHANGED <<order, pc>>

Balance(x) ==
    /\ CanCall(x)
    /\ root' = [root EXCEPT ![x] = balance(root[x])]
    /\ Call("balance", x, 0, NoThrow(0))
    /\ hist' = [hist EXCEPT ![x] = Rebuilt]
    /\ Called
    /\ UNCHANGED <<order, pc>>

\* Mutant: the member is assigned to itself, not the parameter to the member.
SetOrderSelfAssign(x, newOrder) ==
    /\ CanCall(x)
    /\ order' = [order EXCEPT ![x] = order[x]]
    /\ Call("setOrder", x, newOrder, NoThrow(0))
    /\ Called
    /\ UNCHANGED <<root, pc, hist>>

SetOrder(x, newOrder) ==
    /\ CanCall(x)
    /\ order' = [order EXCEPT ![x] = newOrder]
    /\ Call("setOrder", x, newOrder, NoThrow(0))
    /\ Called
    /\ UNCHANGED <<root, pc, hist>>

Query(op, x, arg, res) ==
    /\ CanCall(x)
    /\ Call(op, x, arg, res)
    /\ Called
    /\ UNCHANGED <<root, order, pc, hist>>

Contains(x, val) == Query("contains", x, val, NoThrow(contains(root[x], val)))

GetMin(x) == Query("getMin", x, 0, getMin(root[x]))

GetMax(x) == Query("getMax", x, 0, getMax(root[x]))

GetHeight(x) == Query("getHeight", x, 0, NoThrow(getHeight(root[x])))

IsBalanced(x) == Query("isBalanced", x, 0, NoThrow(isBalanced(root[x])))

CallPrint(x) == Query("print", x, 0, print(root[x], order[x]))

\* BinaryTree b(a);
CopyConstruct ==
    /\ pc = "ready"
    /\ scope = NoScope
    /\ LET c == copyConstruct(root["a"], order["a"])
       IN  IF c = Diverges
           THEN pc' = "hung" /\ UNCHANGED <<root, order, scope, hist>>
           ELSE /\ root' = [root EXCEPT !["b"] = c.root]
                /\ order' = [order EXCEPT !["b"] = c.order]
                /\ scope' = [by |-> "copy", called |-> FALSE]
                /\ hist' = [hist EXCEPT !["b"] = Fresh(Elems(root["a"]))]
                /\ pc' = "ready"
    /\ Call("copy", "b", 0, NoThrow(0))

\* BinaryTree b(std::move(a));
MoveConstruct ==
    /\ pc = "ready"
    /\ scope = NoScope
    /\ \E uninit \in IndeterminateOrder :
         LET m == moveConstruct(root["a"], order["a"], uninit)
         IN  /\ root' = [root EXCEPT !["b"] = m.root, !["a"] = m.otherRoot]
             /\ order' = [order EXCEPT !["b"] = m.order, !["a"] = m.otherOrder]
    /\ scope' = [by |-> "move", called |-> FALSE]
    /\ hist' = [hist EXCEPT !["b"] = hist["a"], !["a"] = Fresh({})]
    /\ Call("move", "b", 0, NoThrow(0))
    /\ UNCHANGED pc

\* x = y;
CopyAssign(x, y) ==
    /\ CanCall(x)
    /\ y \in alive
    /\ LET c == copyAssign(root[x], order[x], root[y], order[y], x = y)
       IN  IF c = Diverges
           THEN pc' = "hung" /\ UNCHANGED <<root, order>>
           ELSE /\ root' = [root EXCEPT ![x] = c.root]
                /\ order' = [order EXCEPT ![x] = c.order]
                /\ pc' = "ready"
    /\ Call("operator=", x, y, NoThrow(0))
    /\ Called
    /\ UNCHANGED hist

\* b's scope ends: ~BinaryTree() destroys b with all its nodes.  `pre` keeps
\* the objects that live on.
DestroyB ==
    /\ pc = "ready"
    /\ scope # NoScope
    /\ scope' = NoScope
    /\ root' = [root EXCEPT !["b"] = nullptr]
    /\ order' = [order EXCEPT !["b"] = InOrder]
    /\ hist' = [hist EXCEPT !["b"] = Fresh({})]
    /\ last' = [op |-> "destroy", obj |-> "b", arg |-> 0, exc |-> "none", ret |-> 0]
    /\ pre' = [root |-> root', order |-> order', hist |-> hist']
    /\ UNCHANGED pc

Next ==
    \/ \E x \in Obj, val \in Values : Insert(x, val)
    \/ \E x \in Obj, val \in Values : DeleteElement(x, val)
    \/ \E x \in Obj : Balance(x)
    \/ \E x \in Obj, newOrder \in VisitingOrder : SetOrder(x, newOrder)
    \/ \E x \in Obj, val \in Values : Contains(x, val)
    \/ \E x \in Obj : GetMin(x)
    \/ \E x \in Obj : GetMax(x)
    \/ \E x \in Obj : GetHeight(x)
    \/ \E x \in Obj : IsBalanced(x)
    \/ \E x \in Obj : CallPrint(x)
    \/ CopyConstruct
    \/ MoveConstruct
    \/ \E x \in Obj, y \in Obj : CopyAssign(x, y)
    \/ DestroyB

Spec == Init /\ [][Next]_vars

(***************************************************************************)
(* Vocabulary of the properties.                                           *)
(***************************************************************************)
\* The stored values from left to right: left subtree, node, right subtree.
RECURSIVE LeftNodeRight(_)
LeftNodeRight(n) ==
    IF n = nullptr THEN <<>>
    ELSE LeftNodeRight(n.left) \o <<n.value>> \o LeftNodeRight(n.right)

\* Node, left subtree, right subtree.
RECURSIVE NodeLeftRight(_)
NodeLeftRight(n) ==
    IF n = nullptr THEN <<>>
    ELSE <<n.value>> \o NodeLeftRight(n.left) \o NodeLeftRight(n.right)

\* The text print() gives for a sequence of values: each preceded by a space.
RECURSIVE Render(_)
Render(seq) ==
    IF seq = <<>> THEN "" ELSE (" " \o ToString(Head(seq))) \o Render(Tail(seq))

NonDecreasing(seq) == \A i \in 1..(Len(seq) - 1) : seq[i] <= seq[i + 1]

\* seq without its first occurrence of v.
RECURSIVE RemoveFirst(_, _)
RemoveFirst(seq, v) ==
    IF seq = <<>> THEN <<>>
    ELSE IF Head(seq) = v THEN Tail(seq)
    ELSE <<Head(seq)>> \o RemoveFirst(Tail(seq), v)

Occurrences(seq, v) == Cardinality({i \in 1..Len(seq) : seq[i] = v})

RECURSIVE LeftStrictRightInclusive(_)
LeftStrictRightInclusive(n) ==
    \/ n = nullptr
    \/ /\ \A v \in Elems(n.left) : v < n.value
       /\ \A v \in Elems(n.right) : v >= n.value
       /\ LeftStrictRightInclusive(n.left)
       /\ LeftStrictRightInclusive(n.right)

Other(x) == IF x = "a" THEN "b" ELSE "a"

\* The last call was op and it returned.
Returned(op) == last.op = op /\ pc = "ready"

\* The tree the last call was made on, before and after the call.
Before == pre.root[last.obj]
After == root[last.obj]

(***************************************************************************)
(* C1.  deleteElement(v) of a stored value v, on a tree built by inserting *)
(* pairwise distinct values, returns true, and the left-to-right sequence  *)
(* of values afterwards is the previous one with v removed: v is no longer *)
(* contained, nothing else is lost or duplicated.                          *)
(***************************************************************************)
C1_DeleteRemovesExactlyTheValue ==
    (/\ Returned("deleteElement")
     /\ pre.hist[last.obj].insertsOnly
     /\ last.arg \in Elems(Before))
    => /\ last.ret = TRUE
       /\ LeftNodeRight(After) = RemoveFirst(LeftNodeRight(Before), last.arg)
       /\ ~contains(After, last.arg)

(***************************************************************************)
(* C2.  insert(val) returns for every val and every tree, also when val    *)
(* equals a stored value, and then val sits in one new leaf.               *)
(***************************************************************************)
C2_InsertTerminates ==
    last.op = "insert"
    => /\ pc = "ready"
       /\ Size(After) = Size(Before) + 1
       /\ Occurrences(LeftNodeRight(After), last.arg)
            = Occurrences(LeftNodeRight(Before), last.arg) + 1

(***************************************************************************)
(* C3.  After inserts of pairwise distinct values from an empty tree,      *)
(* contains(v) is true exactly for the values inserted: for the call just  *)
(* made, and for every value that could be asked.                          *)
(***************************************************************************)
C3_ContainsExactlyTheInserted ==
    /\ (Returned("contains") /\ hist[last.obj].insertsOnly)
       => last.ret = (last.arg \in hist[last.obj].inserted)
    /\ \A x \in alive :
         hist[x].insertsOnly
         => \A v \in Values : contains(root[x], v) = (v \in hist[x].inserted)

C3_Witness ==
    /\ Returned("contains")
    /\ hist[last.obj].insertsOnly
    /\ Size(After) >= 3
    /\ last.ret = TRUE
    /\ \E v \in Values : ~contains(After, v)

(***************************************************************************)
(* C4.  With order InOrder, print() lists the values left subtree, node,   *)
(* right subtree, that is ascending.                                       *)
(***************************************************************************)
C4_PrintInOrderIsLeftNodeRight ==
    (Returned("print") /\ order[last.obj] = InOrder)
    => /\ last.exc = "none"
       /\ last.ret = Render(LeftNodeRight(After))

(***************************************************************************)
(* C5.  With order PreOrder, print() lists the values node, left subtree,  *)
(* right subtree.                                                          *)
(***************************************************************************)
C5_PrintPreOrderIsNodeLeftRight ==
    (Returned("print") /\ order[last.obj] = PreOrder)
    => /\ last.exc = "none"
       /\ last.ret = Render(NodeLeftRight(After))

(***************************************************************************)
(* C6.  x = y with x and y distinct objects leaves x with y's left-to-     *)
(* right sequence of values and y's order, and y as it was.                *)
(***************************************************************************)
C6_CopyAssignMakesEqual ==
    (Returned("operator=") /\ last.arg # last.obj)
    => /\ LeftNodeRight(root[last.obj]) = LeftNodeRight(root[last.arg])
       /\ order[last.obj] = order[last.arg]
       /\ root[last.arg] = pre.root[last.arg]
       /\ order[last.arg] = pre.order[last.arg]

(***************************************************************************)
(* C7.  Copy construction from a tree built by inserting pairwise distinct *)
(* values gives a tree with the source's left-to-right sequence and order, *)
(* and leaves the source as it was; a later insert, deleteElement or       *)
(* balance on either of the two leaves the other as it was.                *)
(***************************************************************************)
C7_CopyIsEqualAndIndependent ==
    /\ (Returned("copy") /\ pre.hist["a"].insertsOnly)
       => /\ LeftNodeRight(root["b"]) = LeftNodeRight(root["a"])
          /\ order["b"] = order["a"]
          /\ root["a"] = pre.root["a"]
          /\ order["a"] = pre.order["a"]
    /\ (/\ scope = [by |-> "copy", called |-> TRUE]
        /\ last.op \in {"insert", "deleteElement", "balance"})
       => /\ root[Other(last.obj)] = pre.root[Other(last.obj)]
          /\ order[Other(last.obj)] = pre.order[Other(last.obj)]

C7_Witness ==
    /\ scope = [by |-> "copy", called |-> TRUE]
    /\ Returned("deleteElement")
    /\ last.obj = "b"
    /\ last.ret = TRUE
    /\ order["a"] = PostOrder
    /\ Size(root["a"]) >= 3
    /\ root["a"].left # nullptr
    /\ root["a"].right # nullptr

(***************************************************************************)
(* C8.  deleteElement(v) of a value v that is not stored (also on an empty *)
(* tree) returns false and leaves the tree as it was, shape included.      *)
(***************************************************************************)
C8_DeleteAbsentChangesNothing ==
    (Returned("deleteElement") /\ last.arg \notin Elems(Before))
    => /\ last.ret = FALSE
       /\ After = Before

C8_Witness ==
    /\ Returned("deleteElement")
    /\ last.arg \notin Elems(Before)
    /\ Size(Before) >= 3
    /\ \E v \in Elems(Before) : v < last.arg
    /\ \E v \in Elems(Before) : v > last.arg

(***************************************************************************)
(* C9.  For a tree built by inserts of pairwise distinct values, the in-   *)
(* order traversal of the nodes is non-decreasing.                         *)
(***************************************************************************)
C9_InsertsKeepInOrderSorted ==
    \A x \in alive :
        hist[x].insertsOnly => NonDecreasing(makeInOrderVector(<<>>, root[x]))

C9_Witness ==
    /\ Returned("insert")
    /\ hist["a"].insertsOnly
    /\ Size(root["a"]) = MaxNodes
    /\ root["a"].left # nullptr
    /\ root["a"].right # nullptr

(***************************************************************************)
(* C10.  In every state reached from an empty tree by insert (of values    *)
(* not stored), deleteElement and balance, every node has only smaller     *)
(* values in its left subtree and only greater or equal ones in its right  *)
(* subtree.                                                                *)
(***************************************************************************)
C10_LeftStrictRightInclusive ==
    pc = "ready" => \A x \in alive : LeftStrictRightInclusive(root[x])

(***************************************************************************)
(* C11.  After balance() on a tree holding n values the tree has minimal   *)
(* height: getHeight() is ceil(log2(n+1)).                                 *)
(***************************************************************************)
\* The least k with 2^k >= m.
RECURSIVE CeilLog2From(_, _)
CeilLog2From(m, k) == IF 2^k >= m THEN k ELSE CeilLog2From(m, k + 1)

CeilLog2(m) == CeilLog2From(m, 0)

C11_BalanceGivesMinimalHeight ==
    Returned("balance") => getHeight(After) = CeilLog2(Size(Before) + 1)

C11_Witness ==
    /\ Returned("balance")
    /\ Size(Before) = MaxNodes
    /\ getHeight(Before) = MaxNodes
    /\ getHeight(After) < getHeight(Before)

(***************************************************************************)
(* C12.  balance() does not change the stored values: the left-to-right    *)
(* sequence of values after it equals the one before it.                   *)
(***************************************************************************)
C12_BalanceKeepsTheSequence ==
    Returned("balance") => LeftNodeRight(After) = LeftNodeRight(Before)

C12_Witness ==
    /\ Returned("balance")
    /\ Size(Before) >= 3
    /\ After # Before
    /\ ~pre.hist[last.obj].insertsOnly

(***************************************************************************)
(* C13.  On a non-empty tree getMin() returns the first and getMax() the   *)
(* last element of the left-to-right sequence of values, which are the     *)
(* smallest and the largest value stored.                                  *)
(***************************************************************************)
C13_MinMaxAreTheEndsOfTheSequence ==
    /\ (Returned("getMin") /\ Before # nullptr)
       => /\ last.exc = "none"
          /\ last.ret = Head(LeftNodeRight(After))
          /\ \A v \in Elems(After) : last.ret <= v
    /\ (Returned("getMax") /\ Before # nullptr)
       => /\ last.exc = "none"
          /\ last.ret = LeftNodeRight(After)[Len(LeftNodeRight(After))]
          /\ \A v \in Elems(After) : last.ret >= v

C13_Witness ==
    /\ Returned("getMax")
    /\ Size(After) >= 3
    /\ ~hist[last.obj].insertsOnly
    /\ After.value # last.ret
    /\ After.left # nullptr

(***************************************************************************)
(* C14.  On an empty tree, fresh or emptied by deletion, getMin() and      *)
(* getMax() throw EmptyTreeException, contains(x) and deleteElement(x)     *)
(* return false, getHeight() returns 0, print() returns the empty string,  *)
(* and the tree is empty afterwards.                                       *)
(***************************************************************************)
C14_EmptyTreeCallsFailCleanly ==
    (/\ Before = nullptr
     /\ last.op \in {"getMin", "getMax", "contains", "deleteElement",
                     "getHeight", "print"})
    => /\ pc = "ready"
       /\ After = nullptr
       /\ last.op \in {"getMin", "getMax"} => last.exc = "EmptyTreeException"
       /\ last.op \in {"contains", "deleteElement"}
            => (last.exc = "none" /\ last.ret = FALSE)
       /\ last.op = "getHeight" => (last.exc = "none" /\ last.ret = 0)
       /\ last.op = "print" => (last.exc = "none" /\ last.ret = "")

C14_Witness ==
    /\ last.op = "getMax"
    /\ last.obj = "a"
    /\ Before = nullptr
    /\ last.exc = "EmptyTreeException"
    /\ ~hist["a"].insertsOnly

(***************************************************************************)
(* C15.  Move construction hands the source's root, with all its nodes,    *)
(* and the source's order to the new tree, and leaves the source without   *)
(* a root.                                                                 *)
(***************************************************************************)
C15_MoveTransfersAndEmptiesSource ==
    Returned("move")
    => /\ root["b"] = pre.root["a"]
       /\ order["b"] = pre.order["a"]
       /\ root["a"] = nullptr

C15_Witness ==
    /\ Returned("move")
    /\ Size(root["b"]) >= 3
    /\ order["b"] = PostOrder
    /\ order["a"] # PostOrder

(***************************************************************************)
(* C16.  setOrder(mode) sets the order of its object and changes nothing   *)
(* else; contains, getMin, getMax, getHeight, isBalanced and print change  *)
(* neither the nodes nor the order.                                        *)
(***************************************************************************)
C16_SetOrderAndQueriesFrame ==
    /\ Returned("setOrder")
       => /\ order[last.obj] = last.arg
          /\ root = pre.root
          /\ \A x \in Obj \ {last.obj} : order[x] = pre.order[x]
    /\ last.op \in {"contains", "getMin", "getMax", "getHeight", "isBalanced", "print"}
       => /\ root = pre.root
          /\ order = pre.order

C16_Witness ==
    /\ Returned("setOrder")
    /\ Size(After) >= 3
    /\ pre.order[last.obj] # last.arg


(***************************************************************************)
(* C17: if callers only insert values for which contains() is false, then  *)
(* copy-constructing the tree terminates from every state reachable by     *)
(* insert, deleteElement and balance.  An insert of a value that contains()*)
(* finds never returns, so every state with pc = "ready" was reached by    *)
(* callers that kept to the condition; the statement is that a copy        *)
(* construction started there returns.                                     *)
(***************************************************************************)
C17_CopyConstructTerminates ==
    last.op = "copy" => pc = "ready"


(***************************************************************************)
(* C18: copy construction from a tree with pairwise distinct values        *)
(* reproduces the source's exact shape: the same value at the root and,    *)
(* recursively, identical left and right subtrees.                         *)
(***************************************************************************)
PairwiseDistinct(r) == Cardinality(Elems(r)) = Size(r)

C18_CopyReproducesTheShape ==
    (last.op = "copy" /\ PairwiseDistinct(pre.root["a"]))
        => /\ pc = "ready"
           /\ root["b"] = pre.root["a"]
           /\ root["a"] = pre.root["a"]

C18_Witness ==
    /\ Returned("copy")
    /\ Size(root["b"]) = MaxNodes
    /\ root["b"].left # nullptr
    /\ root["b"].right # nullptr
    /\ getHeight(root["b"]) >= 3
    /\ root["b"] # balance(root["b"])


(***************************************************************************)
(* C19: after balance() on any tree, at every node (not only the root) the *)
(* heights of the left and right subtrees differ by at most 1, and         *)
(* isBalanced() called immediately afterwards returns true.                *)
(***************************************************************************)
RECURSIVE EveryNodeBalanced(_)
EveryNodeBalanced(r) ==
    IF r = nullptr THEN TRUE
    ELSE LET l == recursiveGetHeight(r.left)
             h == recursiveGetHeight(r.right)
         IN  /\ l - h \in {-1, 0, 1}
             /\ EveryNodeBalanced(r.left)
             /\ EveryNodeBalanced(r.right)

C19_BalanceBalancesEveryNode ==
    Returned("balance") => /\ EveryNodeBalanced(After)
                           /\ isBalanced(After)

C19_Witness ==
    /\ Returned("balance")
    /\ Size(After) = MaxNodes
    /\ ~isBalanced(Before)
    /\ EveryNodeBalanced(After)

(***************************************************************************)
(* C20: balance() on an empty tree terminates and leaves the tree empty:   *)
(* the upper index v.size()-1, computed as an unsigned size, wraps around  *)
(* at 0 and, narrowed to the int parameter of makeNode, is -1, so          *)
(* low > high holds, no node is built and no element of the empty vector   *)
(* is read.                                                                *)
(***************************************************************************)
C20_BalanceOnEmptyLeavesEmpty ==
    (last.op = "balance" /\ Before = nullptr)
        => LET v == makeInOrderVector(<<>>, Before)
           IN  /\ pc = "ready"
               /\ v = <<>>
               /\ SizeTSub(ToSizeT(Len(v)), ToSizeT(1))
                      = <<Limb - 1, Limb - 1, Limb - 1, Limb - 1>>
               /\ balanceHigh(v) = -1
               /\ 0 > balanceHigh(v)
               /\ After = nullptr
               /\ After # TreeNode(OutOfBoundsRead)

C20_Witness ==
    /\ Returned("balance")
    /\ Before = nullptr
    /\ After = nullptr
    /\ ~pre.hist[last.obj].insertsOnly

====
